---- MODULE Spec2Model ----
(***************************************************************************)
(* HashiRWA demo (src/main.py): a Flask application that keeps agricultural *)
(* lot records in db.json.  The model covers the record store, the clock    *)
(* the handlers read, and the handlers seed_data, onboard, admin_approve,   *)
(* admin_reject, listing and metadata_json, with the pure functions they    *)
(* call (generate_id, create_metadata, compute_proof_hash).                 *)
(*                                                                         *)
(* Representation.                                                         *)
(*  - Python str values are TLA+ strings.  The module is ASCII, so the      *)
(*    three non-ASCII prefecture names of seed_data are written in          *)
(*    romanised form; ensure_ascii=False keeps them verbatim in the code,   *)
(*    and the model keeps them verbatim too.                                *)
(*  - A Python dict is a sequence of <<key, value>> pairs in insertion      *)
(*    order; a JSON value is tagged: <<"str", s>>, <<"int", n>>,            *)
(*    <<"dict", pairs>>.                                                    *)
(*  - A string built from a literal and a slice of a digest, as the        *)
(*    f-string "testnet:{proof_hash[:16]}", is the pair of its two parts.   *)
(*  - datetime.now() is the variable clock, in microseconds.  It never      *)
(*    runs backwards; two successive reads may return the same value.       *)
(*  - datetime.isoformat() is modelled by isoformat: the sequence           *)
(*    <<seconds>> when the microsecond part is 0 (the code's string then    *)
(*    has no fractional part) and <<seconds, microseconds>> otherwise.      *)
(*    Python compares these strings lexicographically; str_lt does the      *)
(*    same on the field sequences (fields are fixed-width digit groups).    *)
(***************************************************************************)
EXTENDS Integers, Sequences, FiniteSets, TLC

VARIABLES
    db_file,    \* db.json: [exists, valid |-> BOOLEAN, items |-> sequence of
                \* records]; valid is FALSE when the file holds a cut-off text
    clock,      \* the wall clock read by datetime.now(), in microseconds
    booted,     \* TRUE once the module has been imported (seed_data has run)
    resp,       \* the outcome of the last request: [op, code, saved, body]
    reqs        \* the requests served concurrently, each with what it has
                \* loaded and how far it has got; empty when requests are
                \* served one at a time

vars == <<db_file, clock, booted, resp, reqs>>

(***************************************************************************)
(* Bounds of the model.                                                    *)
(***************************************************************************)
MaxItems == 4
MaxMicros == 1
MaxSeconds == 1
MaxListed == 5
MaxRequests == 2

(***************************************************************************)
(* Program constants.                                                      *)
(***************************************************************************)
ADMIN_KEY == "hashirwa"
IdModulus == 1000000
TxidHexLen == 16
DigestHexLen == 64
MicrosPerSecond == 1000000

(***************************************************************************)
(* JSON values and dicts.                                                  *)
(***************************************************************************)
JStr(s) == <<"str", s>>
JInt(n) == <<"int", n>>
JDict(pairs) == <<"dict", pairs>>

\* d[k] on a dict value; the code only indexes keys that are present.
DictGet(d, k) == d[2][CHOOSE i \in 1..Len(d[2]) : d[2][i][1] = k][2]

\* The keys that occur in metadata, in code-point order (the order that
\* json.dumps(sort_keys=True) sorts them into).
KeyOrder ==
    << "asset", "category", "certification", "contacts", "country", "email",
       "harvest_date", "issuer", "jurisdiction", "lot_size", "notes",
       "prefecture", "product", "rwa_version", "standard", "wallet" >>

KeyRank(k) == CHOOSE i \in 1..Len(KeyOrder) : KeyOrder[i] = k

RECURSIVE InsertPair(_, _)
InsertPair(p, sorted) ==
    IF sorted = << >> THEN << p >>
    ELSE IF KeyRank(p[1]) < KeyRank(Head(sorted)[1]) THEN << p >> \o sorted
    ELSE << Head(sorted) >> \o InsertPair(p, Tail(sorted))

\* Variant of SortPairs: json.dumps without sort_keys=True.
SortPairs_unsorted(pairs) == pairs

\* sorted(d.items()) as json.dumps does with sort_keys=True.
RECURSIVE SortPairs(_)
SortPairs(pairs) ==
    IF pairs = << >> THEN << >>
    ELSE InsertPair(Head(pairs), SortPairs(Tail(pairs)))

\* json.dumps(v, sort_keys=True, ensure_ascii=False) with the default
\* separators ", " and ": ".  The strings of the model contain no quote,
\* backslash or control character, so no escape is produced.
RECURSIVE json_dumps(_)
RECURSIVE dumps_pairs(_)
dumps_pairs(pairs) ==
    IF pairs = << >> THEN ""
    ELSE "\"" \o Head(pairs)[1] \o "\": " \o json_dumps(Head(pairs)[2])
         \o (IF Len(pairs) > 1 THEN ", " ELSE "")
         \o dumps_pairs(Tail(pairs))

json_dumps(v) ==
    IF v[1] = "str" THEN "\"" \o v[2] \o "\""
    ELSE IF v[1] = "int" THEN ToString(v[2])
    ELSE "{" \o dumps_pairs(SortPairs(v[2])) \o "}"

(***************************************************************************)
(* hashlib.sha256(text.encode('utf-8')).hexdigest().  SHA-256 is library    *)
(* code and is treated as an ideal hash: the digest of a text is the term   *)
(* <<"sha256", text, 1, DigestHexLen>>, the run of hexadecimal characters   *)
(* 1..DigestHexLen of the digest of that text.  No claim checked here       *)
(* depends on two different texts having different digests.                 *)
(***************************************************************************)
sha256_hexdigest(text) == << "sha256", text, 1, DigestHexLen >>

\* h[:n] on a run of digest characters.
HexPrefix(h, n) == << h[1], h[2], h[3], IF h[3] + n - 1 < h[4] THEN h[3] + n - 1 ELSE h[4] >>

\* len(h) of a run of digest characters.
HexLen(h) == h[4] - h[3] + 1

\* def compute_proof_hash(metadata)
compute_proof_hash(metadata) == sha256_hexdigest(json_dumps(metadata))

(***************************************************************************)
(* str.strip(): leading and trailing whitespace removed.                   *)
(***************************************************************************)
Whitespace == {" ", "\t"}

RECURSIVE lstrip(_)
lstrip(s) ==
    IF Len(s) > 0 /\ SubSeq(s, 1, 1) \in Whitespace
    THEN lstrip(SubSeq(s, 2, Len(s)))
    ELSE s

RECURSIVE rstrip(_)
rstrip(s) ==
    IF Len(s) > 0 /\ SubSeq(s, Len(s), Len(s)) \in Whitespace
    THEN rstrip(SubSeq(s, 1, Len(s) - 1))
    ELSE s

strip(s) == rstrip(lstrip(s))

\* mapping.get(key, default) on a mapping with string keys.
Get(mapping, key, default) ==
    IF key \in DOMAIN mapping THEN mapping[key] ELSE default

(***************************************************************************)
(* def generate_id(): int(datetime.now().timestamp() * 1000000) % 1000000   *)
(* at clock reading t.                                                     *)
(***************************************************************************)
generate_id(t) == t % IdModulus

(***************************************************************************)
(* datetime.now().isoformat() at clock reading t, and the order of the      *)
(* resulting strings.                                                      *)
(***************************************************************************)
isoformat(t) ==
    IF t % MicrosPerSecond = 0 THEN << t \div MicrosPerSecond >>
    ELSE << t \div MicrosPerSecond, t % MicrosPerSecond >>

\* a < b on isoformat strings: lexicographic, a proper prefix is smaller.
RECURSIVE str_lt(_, _)
str_lt(a, b) ==
    IF b = << >> THEN FALSE
    ELSE IF a = << >> THEN TRUE
    ELSE IF Head(a) # Head(b) THEN Head(a) < Head(b)
    ELSE str_lt(Tail(a), Tail(b))

str_le(a, b) == ~ str_lt(b, a)

(***************************************************************************)
(* def create_metadata(form_data)                                          *)
(***************************************************************************)
create_metadata(form_data) ==
    JDict(<<
        << "rwa_version", JInt(1) >>,
        << "standard", JStr("hashirwa-demo") >>,
        << "issuer", JStr(form_data["producer_name"]) >>,
        << "jurisdiction", JDict(<<
            << "country", JStr("Japan") >>,
            << "prefecture", JStr(form_data["prefecture"]) >> >>) >>,
        << "asset", JDict(<<
            << "category", JStr("Agriculture") >>,
            << "product", JStr(form_data["product"]) >>,
            << "certification", JStr(form_data["certification"]) >>,
            << "lot_size", JStr(form_data["lot_size"]) >>,
            << "harvest_date", JStr(form_data["harvest_date"]) >> >>) >>,
        << "contacts", JDict(<<
            << "email", JStr(Get(form_data, "contact_email", "")) >>,
            << "wallet", JStr(Get(form_data, "wallet_address", "")) >> >>) >>,
        << "notes", JStr(Get(form_data, "notes", "")) >> >>)

\* Variant of sim_testnet_txid: the slice is proof_hash[:8].
sim_testnet_txid_short(proof_hash) == << "testnet:", HexPrefix(proof_hash, 8) >>

\* f"testnet:{proof_hash[:16]}"
sim_testnet_txid(proof_hash) == << "testnet:", HexPrefix(proof_hash, TxidHexLen) >>

\* Variant of make_item: the status of the seed literal, whatever the caller.
make_item_approved(item_id, status, metadata, proof_hash, txid, now) ==
    [ id |-> item_id,
      status |-> "approved",
      metadata |-> metadata,
      proof |-> [ hash |-> proof_hash, sim_testnet_txid |-> txid ],
      timestamps |-> [ created_at |-> now, updated_at |-> now ] ]

\* The item dict literal of seed_data and of onboard.
make_item(item_id, status, metadata, proof_hash, txid, now) ==
    [ id |-> item_id,
      status |-> status,
      metadata |-> metadata,
      proof |-> [ hash |-> proof_hash, sim_testnet_txid |-> txid ],
      timestamps |-> [ created_at |-> now, updated_at |-> now ] ]

(***************************************************************************)
(* db.json                                                                 *)
(***************************************************************************)
\* def load_db(): the "items" list; a missing file reads as {"items": []}.
\* json.load raises on a file that is not valid JSON: load_db is applied
\* only where json_valid holds.
load_db(file) == IF file.exists THEN file.items ELSE << >>

json_valid(file) == file.exists => file.valid

\* def save_db(db): full overwrite of the file.
save_db(items) == [ exists |-> TRUE, valid |-> TRUE, items |-> items ]

\* save_db(db) that fails part-way: open(DB_FILE, 'w') has emptied the file
\* and json.dump has written only a prefix of the text.
save_db_cut(items) == [ exists |-> TRUE, valid |-> FALSE, items |-> << >> ]

\* Variant of find_item: the default of next() is the first item, not None.
find_item_default(items, item_id) ==
    IF \E i \in 1..Len(items) : items[i].id = item_id
    THEN CHOOSE i \in 1..Len(items) :
            /\ items[i].id = item_id
            /\ \A j \in 1..(i - 1) : items[j].id # item_id
    ELSE IF Len(items) > 0 THEN 1 ELSE 0

\* next((item for item in db["items"] if item["id"] == item_id), None), as
\* the index of the first match; 0 stands for None.
find_item(items, item_id) ==
    IF \E i \in 1..Len(items) : items[i].id = item_id
    THEN CHOOSE i \in 1..Len(items) :
            /\ items[i].id = item_id
            /\ \A j \in 1..(i - 1) : items[j].id # item_id
    ELSE 0

(***************************************************************************)
(* Inputs.                                                                 *)
(***************************************************************************)
\* seed_items of seed_data.  "Shizuoka-ken", "Aomori-ken", "Hokkaido" (the
\* prefectures) and the "o" of the third producer stand for the non-ASCII
\* text of the source.
seed_items ==
    << [ producer_name |-> "Shizuoka Green Tea Co.",
         prefecture |-> "Shizuoka-ken",
         product |-> "Green Tea",
         certification |-> "JAS Organic",
         lot_size |-> "500kg",
         harvest_date |-> "2024-05-15",
         contact_email |-> "info@shizuoka-tea.jp",
         wallet_address |-> "0x1234567890abcdef1234567890abcdef12345678",
         notes |-> "Premium grade sencha from mountain slopes" ],
       [ producer_name |-> "Aomori Apple Farmers Union",
         prefecture |-> "Aomori-ken",
         product |-> "Apple",
         certification |-> "JGAP",
         lot_size |-> "1000kg",
         harvest_date |-> "2024-10-20",
         contact_email |-> "contact@aomori-apples.jp",
         wallet_address |-> "0xabcdef1234567890abcdef1234567890abcdef12",
         notes |-> "Fuji apples from certified organic farms" ],
       [ producer_name |-> "Hokkaido Rice Collective",
         prefecture |-> "Hokkaido",
         product |-> "Rice",
         certification |-> "JA",
         lot_size |-> "2000kg",
         harvest_date |-> "2024-09-30",
         contact_email |-> "hello@hokkaido-rice.jp",
         wallet_address |-> "0x567890abcdef1234567890abcdef1234567890ab",
         notes |-> "Premium short-grain rice variety" ] >>

\* The fields that onboard reads from request.form.
FormFields ==
    { "producer_name", "prefecture", "product", "certification", "lot_size",
      "harvest_date", "contact_email", "wallet_address", "notes" }

\* The fields the onboarding form marks as required.
RequiredFields == { "producer_name", "prefecture", "product", "lot_size", "harvest_date" }

\* The request.form values the model submits: a complete form, the same
\* form with surrounding whitespace, and forms with a required field left
\* out, empty or blank.
CompleteForm ==
    [ producer_name |-> "Test Farm", prefecture |-> "Tokyo-to", product |-> "Rice",
      certification |-> "", lot_size |-> "10kg", harvest_date |-> "2024-01-01",
      contact_email |-> "", wallet_address |-> "", notes |-> "" ]

PaddedForm ==
    [ producer_name |-> "  Test Farm ", prefecture |-> "Tokyo-to\t", product |-> " Rice",
      certification |-> " ", lot_size |-> "10kg  ", harvest_date |-> " 2024-01-01 ",
      contact_email |-> "", wallet_address |-> "", notes |-> "  " ]

AbsentFieldsForm ==
    [ product |-> "Rice", certification |-> "JAS Organic",
      contact_email |-> "a@b.jp", notes |-> "n" ]

BlankFieldsForm ==
    [ producer_name |-> "   ", prefecture |-> "", product |-> "Rice",
      certification |-> "JAS Organic", lot_size |-> "\t", harvest_date |-> "",
      contact_email |-> "a@b.jp", wallet_address |-> "", notes |-> "n" ]

Forms == { CompleteForm, PaddedForm, AbsentFieldsForm, BlankFieldsForm }

Methods == { "GET", "POST" }

\* The values of the query parameter k: the key, a wrong key, no key.
Keys == { ADMIN_KEY, "hashirwa ", "" }

\* Time that passes between two successive clock reads of one handler, in
\* microseconds.
Elapsed == { 0, 1 }

\* Time that passes between two requests: a microsecond, or a second.
TickSteps == { 1, MicrosPerSecond }

\* The clock readings of the model: at most MaxSeconds whole seconds and
\* MaxMicros microseconds after the start.
InHorizon(t) ==
    /\ t \div MicrosPerSecond <= MaxSeconds
    /\ t % MicrosPerSecond <= MaxMicros

\* An id that generate_id never returns.
MissingId == IdModulus

\* The ids a request names: those in the store and one that is not.
RequestIds == { load_db(db_file)[i].id : i \in 1..Len(load_db(db_file)) } \cup { MissingId }

NoResp == [ op |-> "none", code |-> 0, saved |-> FALSE, body |-> << >> ]

Response(op, code, saved, body) == [ op |-> op, code |-> code, saved |-> saved, body |-> body ]

(***************************************************************************)
(* Initial state: no db.json, the module not yet imported.                  *)
(***************************************************************************)
Init ==
    /\ db_file = [ exists |-> FALSE, valid |-> FALSE, items |-> << >> ]
    /\ clock = 0
    /\ booted = FALSE
    /\ resp = NoResp
    /\ reqs = << >>

(***************************************************************************)
(* def seed_data(), run at module import, that is each time the process     *)
(* starts; a restart can come in any state and finds db.json as it is.      *)
(***************************************************************************)
\* Variant of seed_item: seeds created with the status of a submission.
seed_item_pending(seed, t, now) ==
    LET item_id == generate_id(t)
        metadata == create_metadata(seed)
        proof_hash == compute_proof_hash(metadata)
        txid == sim_testnet_txid(proof_hash)
    IN  make_item(item_id, "pending", metadata, proof_hash, txid, now)

\* One iteration of the loop of seed_data, its generate_id call made at t.
seed_item(seed, t, now) ==
    LET item_id == generate_id(t)
        metadata == create_metadata(seed)
        proof_hash == compute_proof_hash(metadata)
        txid == sim_testnet_txid(proof_hash)
    IN  make_item(item_id, "approved", metadata, proof_hash, txid, now)

seed_data ==
    LET db == load_db(db_file)
    IN  /\ json_valid(db_file)
        /\ booted' = TRUE
        /\ resp' = NoResp
        /\ reqs' = << >>
        /\ IF db = << >>
           THEN \E e1, e2, e3 \in Elapsed :
                    LET now == isoformat(clock)
                        t1 == clock + e1
                        t2 == t1 + e2
                        t3 == t2 + e3
                    IN  /\ InHorizon(t3)
                        /\ db_file' = save_db(db \o << seed_item(seed_items[1], t1, now),
                                                       seed_item(seed_items[2], t2, now),
                                                       seed_item(seed_items[3], t3, now) >>)
                        /\ clock' = t3
           ELSE UNCHANGED << db_file, clock >>

(***************************************************************************)
(* def onboard(): GET renders the form, POST creates a record.              *)
(***************************************************************************)
onboard(method, form) ==
    /\ booted
    /\ IF method = "POST"
       THEN \E e \in Elapsed :
                LET form_data == [ name \in FormFields |-> strip(Get(form, name, "")) ]
                    item_id == generate_id(clock)
                    metadata == create_metadata(form_data)
                    proof_hash == compute_proof_hash(metadata)
                    txid == sim_testnet_txid(proof_hash)
                    now == isoformat(clock + e)
                    item == make_item(item_id, "pending", metadata, proof_hash, txid, now)
                    db == load_db(db_file)
                IN  /\ InHorizon(clock + e)
                    /\ db_file' = save_db(Append(db, item))
                    /\ clock' = clock + e
                    /\ resp' = Response("onboard", 200, TRUE, << >>)
       ELSE /\ resp' = Response("onboard", 200, FALSE, << >>)
            /\ UNCHANGED << db_file, clock >>
    /\ UNCHANGED << booted, reqs >>

(***************************************************************************)
(* def admin_approve(item_id), def admin_reject(item_id)                    *)
(***************************************************************************)
\* Variant of is_admin: any non-empty key passes.
is_admin_nonempty(admin_key) == admin_key # ""

\* admin_key != ADMIN_KEY, negated.
is_admin(admin_key) == admin_key = ADMIN_KEY

\* Variant of set_status: the status written is "approved" in both handlers.
set_status_approved(db, i, status, now) ==
    [ db EXCEPT ![i].status = "approved", ![i].timestamps.updated_at = now ]

\* Variant of set_status: the whole timestamps dict is replaced.
set_status_retime(db, i, status, now) ==
    [ db EXCEPT ![i].status = status,
                ![i].timestamps = [ created_at |-> now, updated_at |-> now ] ]

\* Variant of set_status: updated_at is the time of the process start.
set_status_stale(db, i, status, now) ==
    [ db EXCEPT ![i].status = status, ![i].timestamps.updated_at = isoformat(0) ]

\* Variant of set_status: every item with the id of item i is written.
set_status_all(db, i, status, now) ==
    [ k \in 1..Len(db) |->
        IF db[k].id = db[i].id
        THEN [ db[k] EXCEPT !.status = status, !.timestamps.updated_at = now ]
        ELSE db[k] ]

\* item["status"] = status; item["timestamps"]["updated_at"] = now, on the
\* item at index i of the loaded list.
set_status(db, i, status, now) ==
    [ db EXCEPT ![i].status = status, ![i].timestamps.updated_at = now ]

\* The body shared by admin_approve and admin_reject, which differ in the
\* status they write.
review(op, status, item_id, admin_key) ==
    /\ booted
    /\ IF ~ is_admin(admin_key)
       THEN /\ resp' = Response(op, 403, FALSE, << >>)
            /\ UNCHANGED << db_file, clock >>
       ELSE LET db == load_db(db_file)
                item == find_item(db, item_id)
            IN  IF item # 0
                THEN /\ db_file' = save_db(set_status(db, item, status, isoformat(clock)))
                     /\ resp' = Response(op, 302, TRUE, << >>)
                     /\ UNCHANGED clock
                ELSE /\ resp' = Response(op, 302, FALSE, << >>)
                     /\ UNCHANGED << db_file, clock >>
    /\ UNCHANGED << booted, reqs >>

admin_approve(item_id, admin_key) == review("admin_approve", "approved", item_id, admin_key)

admin_reject(item_id, admin_key) == review("admin_reject", "rejected", item_id, admin_key)

(***************************************************************************)
(* def listing(item_id), def metadata_json(item_id): reads.                 *)
(***************************************************************************)
lookup(op, item_id) ==
    /\ booted
    /\ LET db == load_db(db_file)
           item == find_item(db, item_id)
       IN  IF item = 0
           THEN resp' = Response(op, 404, FALSE, << >>)
           ELSE resp' = Response(op, 200, FALSE, << db[item] >>)
    /\ UNCHANGED << db_file, clock, booted, reqs >>

listing(item_id) == lookup("listing", item_id)

metadata_json(item_id) == lookup("metadata_json", item_id)

(***************************************************************************)
(* def admin(), def market(): the lists the pages show.                     *)
(***************************************************************************)
\* a sorts before b under list.sort(key=..., reverse=reverse).
sorts_before(a, b, reverse) == IF reverse THEN str_lt(b, a) ELSE str_lt(a, b)

\* x put into a sorted list behind every element it does not sort before.
RECURSIVE insert_item(_, _, _, _)
insert_item(x, sorted, field, reverse) ==
    IF sorted = << >> THEN << x >>
    ELSE IF sorts_before(x.timestamps[field], Head(sorted).timestamps[field], reverse)
         THEN << x >> \o sorted
         ELSE << Head(sorted) >> \o insert_item(x, Tail(sorted), field, reverse)

\* list.sort(key=lambda x: x["timestamps"][field], reverse=reverse): a stable
\* sort, also with reverse=True (equal keys keep their original order).
RECURSIVE list_sort(_, _, _)
list_sort(list, field, reverse) ==
    IF list = << >> THEN << >>
    ELSE insert_item(list[Len(list)],
                     list_sort(SubSeq(list, 1, Len(list) - 1), field, reverse),
                     field, reverse)

\* Variant of pending_items: sorted with reverse=True, as the approved list.
pending_items_reversed(db) ==
    list_sort(SelectSeq(db, LAMBDA item : item.status = "pending"), "created_at", TRUE)

\* pending_items of admin, after its sort.
pending_items(db) ==
    list_sort(SelectSeq(db, LAMBDA item : item.status = "pending"), "created_at", FALSE)

\* Variant of approved_items: sorted without reverse=True.
approved_items_ascending(db) ==
    list_sort(SelectSeq(db, LAMBDA item : item.status = "approved"), "updated_at", FALSE)

\* approved_items of admin and of market, after its sort.
approved_items(db) ==
    list_sort(SelectSeq(db, LAMBDA item : item.status = "approved"), "updated_at", TRUE)

\* A wrong key gets the login page; the right key gets the two lists.
admin(admin_key) ==
    /\ booted
    /\ IF ~ is_admin(admin_key)
       THEN resp' = Response("admin", 200, FALSE, << >>)
       ELSE LET db == load_db(db_file)
            IN  resp' = Response("admin", 200, FALSE,
                                 << [ pending_items |-> pending_items(db),
                                      approved_items |-> approved_items(db) ] >>)
    /\ UNCHANGED << db_file, clock, booted, reqs >>

market ==
    /\ booted
    /\ LET db == load_db(db_file)
       IN  resp' = Response("market", 200, FALSE,
                            << [ approved_items |-> approved_items(db) ] >>)
    /\ UNCHANGED << db_file, clock, booted, reqs >>

(***************************************************************************)
(* Time passes between requests.                                           *)
(***************************************************************************)
Tick(d) ==
    /\ InHorizon(clock + d)
    /\ clock' = clock + d
    /\ UNCHANGED << db_file, booted, resp, reqs >>

Next ==
    \/ seed_data
    \/ \E method \in Methods, form \in Forms :
            Len(load_db(db_file)) < MaxItems /\ onboard(method, form)
    \/ \E item_id \in RequestIds, admin_key \in Keys : admin_approve(item_id, admin_key)
    \/ \E item_id \in RequestIds, admin_key \in Keys : admin_reject(item_id, admin_key)
    \/ \E item_id \in RequestIds : listing(item_id)
    \/ \E item_id \in RequestIds : metadata_json(item_id)
    \/ \E d \in TickSteps : Tick(d)

Spec == Init /\ [][Next]_vars

(***************************************************************************)
(* The pages: submissions of one and the same form content, authorized      *)
(* reviews, and the admin and market pages, on a store of up to MaxListed   *)
(* records.                                                                *)
(***************************************************************************)
PageForms == { CompleteForm, PaddedForm }

NextPages ==
    \/ seed_data
    \/ \E form \in PageForms :
            Len(load_db(db_file)) < MaxListed /\ onboard("POST", form)
    \/ \E item_id \in RequestIds : admin_approve(item_id, ADMIN_KEY)
    \/ \E item_id \in RequestIds : admin_reject(item_id, ADMIN_KEY)
    \/ \E admin_key \in Keys : admin(admin_key)
    \/ market
    \/ \E d \in TickSteps : Tick(d)

SpecPages == Init /\ [][NextPages]_vars

(***************************************************************************)
(* Requests served concurrently (app.run serves each request in its own     *)
(* thread).  A handler that writes is two steps: up to and including its    *)
(* load_db(), and from there to the end of its save_db().  A request of     *)
(* reqs is [op, pc, db, item, item_id, status, overtaken]: db is the list   *)
(* it loaded, item the record an onboard built (in a one-element list),     *)
(* pc is "loaded", then "done" or "failed"; overtaken records that another  *)
(* request saved between its load and its save.                            *)
(***************************************************************************)
Request(op, db, item, item_id, status) ==
    [ op |-> op, pc |-> "loaded", db |-> db, item |-> item,
      item_id |-> item_id, status |-> status, overtaken |-> FALSE ]

\* onboard, lines 311-347: the item is built, then the store is loaded.  On
\* a file that is not valid JSON load_db raises and the request ends.
begin_onboard(form) ==
    /\ booted
    /\ IF ~ json_valid(db_file)
       THEN /\ resp' = Response("onboard", 500, FALSE, << >>)
            /\ UNCHANGED << clock, reqs >>
       ELSE \E e \in Elapsed :
                LET form_data == [ name \in FormFields |-> strip(Get(form, name, "")) ]
                    item_id == generate_id(clock)
                    metadata == create_metadata(form_data)
                    proof_hash == compute_proof_hash(metadata)
                    txid == sim_testnet_txid(proof_hash)
                    now == isoformat(clock + e)
                    item == make_item(item_id, "pending", metadata, proof_hash, txid, now)
                    db == load_db(db_file)
                IN  /\ InHorizon(clock + e)
                    /\ Len(reqs) < MaxRequests
                    /\ reqs' = Append(reqs, Request("onboard", db, << item >>, item_id, "pending"))
                    /\ clock' = clock + e
                    /\ UNCHANGED resp
    /\ UNCHANGED << db_file, booted >>

\* admin_approve and admin_reject with the right key, lines 606-611 and 621-626.
begin_review(op, status, item_id) ==
    /\ booted
    /\ IF ~ json_valid(db_file)
       THEN /\ resp' = Response(op, 500, FALSE, << >>)
            /\ UNCHANGED reqs
       ELSE /\ Len(reqs) < MaxRequests
            /\ reqs' = Append(reqs, Request(op, load_db(db_file), << >>, item_id, status))
            /\ UNCHANGED resp
    /\ UNCHANGED << db_file, clock, booted >>

\* Variant of loaded_db: the list is read again when the request writes.
loaded_db_reread(r) == load_db(db_file)

\* The local variable db of the handler that serves r.
loaded_db(r) == r.db

\* r writes: whether the handler of r reaches its save_db().
writes(r) == r.op = "onboard" \/ find_item(loaded_db(r), r.item_id) # 0

\* The list that the handler of r passes to save_db, at clock reading t.
list_to_save(r, t) ==
    IF r.op = "onboard" THEN Append(loaded_db(r), r.item[1])
    ELSE set_status(loaded_db(r), find_item(loaded_db(r), r.item_id), r.status, isoformat(t))

\* The requests other than i that stand between load and save have been
\* overtaken by the save of request i.
overtake(i) ==
    [ k \in 1..Len(reqs) |->
        IF k = i THEN [ reqs[k] EXCEPT !.pc = "done" ]
        ELSE IF reqs[k].pc = "loaded" THEN [ reqs[k] EXCEPT !.overtaken = TRUE ]
        ELSE reqs[k] ]

\* The rest of the handler of request i: lines 348-349 of onboard, lines
\* 613-618 of admin_approve, 628-633 of admin_reject.
finish(i) ==
    /\ reqs[i].pc = "loaded"
    /\ IF writes(reqs[i])
       THEN /\ db_file' = save_db(list_to_save(reqs[i], clock))
            /\ reqs' = overtake(i)
            /\ resp' = Response(reqs[i].op, IF reqs[i].op = "onboard" THEN 200 ELSE 302,
                                TRUE, << >>)
       ELSE /\ reqs' = [ reqs EXCEPT ![i].pc = "done" ]
            /\ resp' = Response(reqs[i].op, 302, FALSE, << >>)
            /\ UNCHANGED db_file
    /\ UNCHANGED << clock, booted >>

\* The rest of the handler of request i when its save_db raises part-way
\* (an I/O error while json.dump writes): the exception ends the request.
finish_save_fails(i) ==
    /\ reqs[i].pc = "loaded"
    /\ writes(reqs[i])
    /\ db_file' = save_db_cut(list_to_save(reqs[i], clock))
    /\ reqs' = [ reqs EXCEPT ![i].pc = "failed" ]
    /\ resp' = Response(reqs[i].op, 500, FALSE, << >>)
    /\ UNCHANGED << clock, booted >>

NextRace ==
    \/ ~ booted /\ seed_data
    \/ \E form \in PageForms : begin_onboard(form)
    \/ \E item_id \in RequestIds : begin_review("admin_approve", "approved", item_id)
    \/ \E item_id \in RequestIds : begin_review("admin_reject", "rejected", item_id)
    \/ \E i \in 1..Len(reqs) : finish(i)
    \/ \E i \in 1..Len(reqs) : finish_save_fails(i)
    \/ \E d \in TickSteps : Tick(d)

SpecRace == Init /\ [][NextRace]_vars

(***************************************************************************)
(* Properties.  items is db["items"] as a request would load it.            *)
(***************************************************************************)
items == load_db(db_file)

\* A submitted form lacks a required field: absent, or empty once stripped.
MissingRequired(form) == \E f \in RequiredFields : strip(Get(form, f, "")) = ""

\* C1: a record's status changes only from pending to approved or rejected;
\* once a record is approved or rejected, no request changes its status.
C1_StatusTerminal ==
    [][\A i \in 1..Len(items) :
          items[i].status \in { "approved", "rejected" } =>
              /\ i <= Len(items')
              /\ items'[i].status = items[i].status]_vars

\* C2: no two records of the store have the same id.
C2_UniqueIds ==
    \A i, j \in 1..Len(items) : i # j => items[i].id # items[j].id

\* C3: a POST to /onboard appends exactly one record to the end of the
\* store, with status pending and created_at equal to updated_at.
C3_SubmitAppendsPending ==
    [][\A form \in Forms :
          onboard("POST", form) =>
              /\ Len(items') = Len(items) + 1
              /\ SubSeq(items', 1, Len(items)) = items
              /\ items'[Len(items')].status = "pending"
              /\ items'[Len(items')].timestamps.created_at
                    = items'[Len(items')].timestamps.updated_at]_vars

\* A record has just been submitted: it is the last one, pending, with equal
\* timestamps, behind the three seeded records.
C3_Witness ==
    /\ resp = Response("onboard", 200, TRUE, << >>)
    /\ Len(items) = 4
    /\ items[4].status = "pending"
    /\ items[4].timestamps.created_at = items[4].timestamps.updated_at
    /\ items[4].timestamps.created_at # items[1].timestamps.created_at

\* C4: a POST to /onboard that lacks a required field fails with an error
\* and leaves the store unchanged.
C4_ValidationRejects ==
    [][\A form \in Forms :
          onboard("POST", form) /\ MissingRequired(form) =>
              /\ db_file' = db_file
              /\ resp'.code >= 400]_vars

\* C5: admin_approve or admin_reject with a key other than ADMIN_KEY answers
\* 403 and leaves the store unchanged.
C5_WrongKeyForbidden ==
    [][\A item_id \in RequestIds, admin_key \in Keys :
          /\ admin_key # ADMIN_KEY
          /\ admin_approve(item_id, admin_key) \/ admin_reject(item_id, admin_key)
          => /\ resp'.code = 403
             /\ db_file' = db_file]_vars

\* A request with a wrong key was refused while a pending record was there
\* to review.
C5_Witness ==
    /\ resp.code = 403
    /\ resp.op = "admin_reject"
    /\ \E i \in 1..Len(items) : items[i].status = "pending"

\* C6: after an authorized admin_approve(id) on an existing record, the
\* lookup of id gives a record with status approved whose updated_at is not
\* smaller than before; likewise admin_reject and rejected.
C6_ReviewTakesEffect ==
    [][\A item_id \in RequestIds :
          LET before == find_item(items, item_id)
              after == find_item(items', item_id)
          IN  before # 0 =>
                /\ admin_approve(item_id, ADMIN_KEY) =>
                      /\ after # 0
                      /\ items'[after].status = "approved"
                      /\ str_le(items[before].timestamps.updated_at,
                                items'[after].timestamps.updated_at)
                /\ admin_reject(item_id, ADMIN_KEY) =>
                      /\ after # 0
                      /\ items'[after].status = "rejected"
                      /\ str_le(items[before].timestamps.updated_at,
                                items'[after].timestamps.updated_at)]_vars

\* A seeded record has been rejected at a later clock reading, and
\* metadata_json has returned it.
C6_Witness ==
    /\ resp.op = "metadata_json"
    /\ resp.code = 200
    /\ resp.body[1].status = "rejected"
    /\ str_lt(resp.body[1].timestamps.created_at, resp.body[1].timestamps.updated_at)

\* C7: an authorized admin_approve or admin_reject on an id that matches no
\* record changes nothing, saves nothing and answers with the redirect;
\* listing and metadata_json on that id answer 404.
C7_MissingIdNoOp ==
    [][\A item_id \in RequestIds :
          (\A i \in 1..Len(items) : items[i].id # item_id) =>
              /\ admin_approve(item_id, ADMIN_KEY) \/ admin_reject(item_id, ADMIN_KEY)
                    => /\ db_file' = db_file
                       /\ ~ resp'.saved
                       /\ resp'.code = 302
              /\ listing(item_id) \/ metadata_json(item_id)
                    => resp'.code = 404]_vars

\* An authorized approve of an unknown id has been answered without a save,
\* with records in the store.
C7_Witness ==
    /\ resp = Response("admin_approve", 302, FALSE, << >>)
    /\ Len(items) >= 3
    /\ \A i \in 1..Len(items) : items[i].id # MissingId

\* C8 as stated: every record enters the store with status pending,
\* whichever operation created it.
C8_EntersPending ==
    [][\A i \in (Len(items) + 1)..Len(items') :
          items'[i].status = "pending"]_vars

\* C8 amended: a record created by onboard enters the store with status
\* pending, and the records created by seed_data enter it with status
\* approved.
C8_EntersPendingOrSeeded ==
    [][/\ (\E form \in Forms : onboard("POST", form)) =>
             \A i \in (Len(items) + 1)..Len(items') : items'[i].status = "pending"
       /\ seed_data =>
             \A i \in (Len(items) + 1)..Len(items') : items'[i].status = "approved"]_vars

\* The seeds have just entered the store.
C8_Witness ==
    /\ booted
    /\ resp = NoResp
    /\ Len(items) = 3
    /\ \A i \in 1..3 : /\ items[i].status = "approved"
                       /\ items[i].timestamps.created_at = items[i].timestamps.updated_at

\* C9: the id, metadata, proof and created_at of a record in the store never
\* change.
C9_FrameOfRecord ==
    [][\A i \in 1..Len(items) :
          /\ i <= Len(items')
          /\ items'[i].id = items[i].id
          /\ items'[i].metadata = items[i].metadata
          /\ items'[i].proof = items[i].proof
          /\ items'[i].timestamps.created_at = items[i].timestamps.created_at]_vars

\* A submitted record has been reviewed at a later clock reading than its
\* creation.
C9_Witness ==
    /\ Len(items) = 4
    /\ items[4].status = "approved"
    /\ items[4].timestamps.updated_at # items[4].timestamps.created_at

\* C10: every record's proof.hash is compute_proof_hash of its metadata and
\* its sim_testnet_txid is "testnet:" followed by the first 16 characters of
\* the hash.
C10_ProofOfMetadata ==
    \A i \in 1..Len(items) :
        /\ items[i].proof.hash = compute_proof_hash(items[i].metadata)
        /\ items[i].proof.sim_testnet_txid[1] = "testnet:"
        /\ items[i].proof.sim_testnet_txid[2] = HexPrefix(items[i].proof.hash, 16)
        /\ HexLen(items[i].proof.sim_testnet_txid[2]) = 16

\* Seeded and submitted records are in the store, reviewed, the submitted
\* one from a form that needed stripping.
C10_Witness ==
    /\ Len(items) = 4
    /\ items[4].status = "rejected"
    /\ items[1].status = "rejected"
    /\ DictGet(items[4].metadata, "issuer") = JStr("Test Farm")

\* The dict v built with its keys inserted in the opposite order, at every
\* nesting level.
RECURSIVE ReverseDict(_)
ReverseDict(v) ==
    IF v[1] # "dict" THEN v
    ELSE JDict([ k \in 1..Len(v[2]) |->
                   << v[2][Len(v[2]) + 1 - k][1],
                      ReverseDict(v[2][Len(v[2]) + 1 - k][2]) >> ])

\* C11: records with the same metadata content have the same proof.hash and
\* sim_testnet_txid, whenever and into whatever store they were submitted,
\* and the hash of a record's metadata does not depend on the order in which
\* its keys were inserted.
C11_HashOfContentOnly ==
    /\ \A i, j \in 1..Len(items) :
          items[i].metadata = items[j].metadata =>
              /\ items[i].proof.hash = items[j].proof.hash
              /\ items[i].proof.sim_testnet_txid = items[j].proof.sim_testnet_txid
    /\ \A i \in 1..Len(items) :
          compute_proof_hash(ReverseDict(items[i].metadata)) = items[i].proof.hash

\* Two submissions of the same form content, made at different clock
\* readings into stores of three and of four records, are in the store.
C11_Witness ==
    /\ Len(items) = 5
    /\ items[4].metadata = items[5].metadata
    /\ items[4].id # items[5].id
    /\ items[4].timestamps.created_at # items[5].timestamps.created_at
    /\ ReverseDict(items[5].metadata) # items[5].metadata

\* The number of positions of seq that hold x.
Count(seq, x) == Cardinality({ k \in 1..Len(seq) : seq[k] = x })

\* list holds exactly the records of the store with the given status, each
\* as often as the store does.
ExactlyWithStatus(list, store, status) ==
    /\ \A k \in 1..Len(list) :
          /\ list[k].status = status
          /\ Count(list, list[k]) = Count(store, list[k])
    /\ \A i \in 1..Len(store) :
          store[i].status = status => Count(list, store[i]) = Count(store, store[i])

\* C12: the pending list of the admin page holds exactly the pending records
\* of the store, in non-decreasing order of created_at.
C12_PendingList ==
    [][admin(ADMIN_KEY) =>
          LET list == resp'.body[1].pending_items
          IN  /\ ExactlyWithStatus(list, items, "pending")
              /\ \A a, b \in 1..Len(list) :
                    a < b => str_le(list[a].timestamps.created_at,
                                    list[b].timestamps.created_at)]_vars

\* The admin page shows two pending records created at different clock
\* readings, from a store that also holds records that are not pending.
C12_Witness ==
    /\ resp.op = "admin"
    /\ resp.body # << >>
    /\ Len(resp.body[1].pending_items) = 2
    /\ str_lt(resp.body[1].pending_items[1].timestamps.created_at,
              resp.body[1].pending_items[2].timestamps.created_at)
    /\ \E i \in 1..Len(items) : items[i].status = "rejected"

\* C13: the approved list of the admin page and of the market page holds
\* exactly the approved records of the store, in non-increasing order of
\* updated_at.
C13_ApprovedList ==
    [][admin(ADMIN_KEY) \/ market =>
          LET list == resp'.body[1].approved_items
          IN  /\ ExactlyWithStatus(list, items, "approved")
              /\ \A a, b \in 1..Len(list) :
                    a < b => str_le(list[b].timestamps.updated_at,
                                    list[a].timestamps.updated_at)]_vars

\* The market shows approved records in another order than the store holds
\* them, while the store also holds a pending and a rejected record.
C13_Witness ==
    /\ resp.op = "market"
    /\ Len(resp.body[1].approved_items) >= 2
    /\ resp.body[1].approved_items
          # SelectSeq(items, LAMBDA item : item.status = "approved")
    /\ \E i \in 1..Len(items) : items[i].status = "pending"
    /\ \E i \in 1..Len(items) : items[i].status = "rejected"

\* C14: every record in the store has updated_at not smaller than
\* created_at.
C14_UpdatedNotBeforeCreated ==
    \A i \in 1..Len(items) :
        str_le(items[i].timestamps.created_at, items[i].timestamps.updated_at)

\* A seeded record has been reviewed later in the second of its creation
\* (its created_at is a proper prefix of its updated_at), and a submitted
\* record in a later second.
C14_Witness ==
    /\ Len(items) = 4
    /\ Len(items[1].timestamps.created_at) = 1
    /\ Len(items[1].timestamps.updated_at) = 2
    /\ str_lt(items[1].timestamps.created_at, items[1].timestamps.updated_at)
    /\ items[4].timestamps.created_at[1] < items[4].timestamps.updated_at[1]
    /\ str_lt(items[4].timestamps.created_at, items[4].timestamps.updated_at)

\* C15: a submit or a status transition whose save_db fails part-way has no
\* effect on the store: the file is still valid JSON and a later load_db
\* returns the list exactly as it was before the request.
C15_FailedSaveHasNoEffect ==
    [][\A i \in 1..Len(reqs) :
          finish_save_fails(i) =>
              /\ json_valid(db_file')
              /\ load_db(db_file') = load_db(db_file)]_vars

\* C16: the load / modify / save cycles of requests are not serialized.  When
\* a request saves after another request has saved since its load, the file
\* then holds the list the request loaded with only its own change: as many
\* records as it loaded (one more for a submit), each one, but the record a
\* review targets, as it was at the load; what was saved in between is gone.
C16_LaterSaveOverwrites ==
    [][\A i \in 1..Len(reqs) :
          reqs[i].pc = "loaded" /\ reqs[i].overtaken /\ finish(i) /\ resp'.saved =>
              /\ json_valid(db_file')
              /\ Len(items') = Len(reqs[i].db) + (IF reqs[i].op = "onboard" THEN 1 ELSE 0)
              /\ \A k \in 1..Len(reqs[i].db) :
                     reqs[i].op = "onboard" \/ reqs[i].db[k].id # reqs[i].item_id =>
                         items'[k] = reqs[i].db[k]]_vars

\* C16 witness: a submit was answered 200 after its save; a rejection that
\* had loaded before that save has then saved; the submitted record is not
\* in the store.
C16_Witness ==
    /\ Len(reqs) = 2
    /\ reqs[1].op = "onboard" /\ reqs[1].pc = "done"
    /\ reqs[2].op = "admin_reject" /\ reqs[2].pc = "done" /\ reqs[2].overtaken
    /\ resp = Response("admin_reject", 302, TRUE, << >>)
    /\ json_valid(db_file)
    /\ Len(items) = Len(reqs[1].db)
    /\ \A k \in 1..Len(items) : items[k] # reqs[1].item[1]

\* C17: an authorized admin_approve or admin_reject changes at most one
\* record, the first in insertion order with the requested id, and of that
\* record only status and updated_at; the other records, their number and
\* their order stay as they are.
C17_ReviewTouchesFirstMatchOnly ==
    [][\A item_id \in RequestIds :
          admin_approve(item_id, ADMIN_KEY) \/ admin_reject(item_id, ADMIN_KEY) =>
              /\ Len(items') = Len(items)
              /\ \A i \in 1..Len(items) :
                    IF /\ items[i].id = item_id
                       /\ \A j \in 1..(i - 1) : items[j].id # item_id
                    THEN /\ items'[i].id = items[i].id
                         /\ items'[i].metadata = items[i].metadata
                         /\ items'[i].proof = items[i].proof
                         /\ items'[i].timestamps.created_at = items[i].timestamps.created_at
                    ELSE items'[i] = items[i]]_vars

\* Two records share an id; the first has been rejected and the second is
\* as it was created.
C17_Witness ==
    /\ Len(items) >= 3
    /\ items[1].id = items[2].id
    /\ items[1].status = "rejected"
    /\ items[2].status = "approved"
    /\ items[2].timestamps.updated_at = items[2].timestamps.created_at
    /\ items[1].timestamps.updated_at # items[1].timestamps.created_at

====
